---- MODULE Spec2Model ----
(***************************************************************************)
(* Findings pipeline of the compliance-report viewer:                      *)
(*   src/components/ComplianceReport.tsx (first, fuller component, lines   *)
(*   1-808), src/services/geminiService.ts, src/App.tsx.                   *)
(*                                                                         *)
(* JavaScript strings that the code inspects (toLowerCase, trim, includes, *)
(* localeCompare) are sequences of one-character strings.  Strings that    *)
(* are only compared for equality (ids, statuses, view names) are TLA+     *)
(* strings.  Box coordinates are integers in thousandths (0.1 is 100).     *)
(***************************************************************************)
EXTENDS Integers, Sequences, FiniteSets, TLC

VARIABLES
    analysisReport,   \* App.tsx:17      <<>> is null, <<r>> is the Report r
    isAnalyzing,      \* App.tsx:18
    view,             \* App.tsx:14
    isAuthenticated,  \* App.tsx:13
    pending,          \* analyzeDrawingImage calls awaiting the provider
    lastCall,         \* the last analyzeDrawingImage call that settled
    filterStatus,     \* ComplianceReport.tsx:25
    searchText,       \* ComplianceReport.tsx:26
    sortBy,           \* ComplianceReport.tsx:27
    hiddenLayers,     \* ComplianceReport.tsx:31
    showBaseLayer,    \* ComplianceReport.tsx:32
    drawingSearch,    \* ComplianceReport.tsx:36
    activeFindingId,  \* ComplianceReport.tsx:23
    hoveredFindingId, \* ComplianceReport.tsx:24
    exportCategories, \* ComplianceReport.tsx:49
    lastHandler,      \* history: the handler that ran last
    isExportModalOpen, \* ComplianceReport.tsx:41
    isDownloading,    \* ComplianceReport.tsx:42
    exportConfig,     \* ComplianceReport.tsx:43-48
    exportStatuses,   \* ComplianceReport.tsx:50-55
    timers,           \* setTimeout callbacks of handleDownload not yet run
    lastAlert,        \* the last alert() shown; <<>> when none
    isChatOpen,       \* App.tsx:16
    consultContext,   \* App.tsx:19
    messages,         \* ChatInterface.tsx:13
    input,            \* ChatInterface.tsx:21
    isLoading,        \* ChatInterface.tsx:22
    chatPending,      \* sendChatMessage calls awaiting the provider
    error             \* FileUpload.tsx:11

appVars == <<analysisReport, isAnalyzing, view, isAuthenticated, pending, lastCall>>
listVars == <<filterStatus, searchText, sortBy>>
layerVars == <<hiddenLayers, showBaseLayer, drawingSearch>>
pointerVars == <<activeFindingId, hoveredFindingId>>
downloadVars == <<isExportModalOpen, isDownloading, exportConfig, exportStatuses>>
timerVars == <<timers, lastAlert>>
chatAppVars == <<isChatOpen, consultContext>>
chatVars == <<messages, input, isLoading, chatPending>>
sideVars == <<timerVars, chatAppVars, chatVars, error>>
vars == <<analysisReport, isAnalyzing, view, isAuthenticated, pending, lastCall,
          filterStatus, searchText, sortBy, hiddenLayers, showBaseLayer,
          drawingSearch, activeFindingId, hoveredFindingId, exportCategories,
          lastHandler, isExportModalOpen, isDownloading, exportConfig,
          exportStatuses, timers, lastAlert, isChatOpen, consultContext,
          messages, input, isLoading, chatPending, error>>

----------------------------------------------------------------------------
(* Bounds *)

MaxFindings == 3
MaxPending == 2
MaxMessages == 5
MaxChatPending == 2

----------------------------------------------------------------------------
(* JavaScript strings *)

UpperChars == <<"A","B","C","D","E","F","G","H","I","J","K","L","M",
                "N","O","P","Q","R","S","T","U","V","W","X","Y","Z">>
LowerChars == <<"a","b","c","d","e","f","g","h","i","j","k","l","m",
                "n","o","p","q","r","s","t","u","v","w","x","y","z">>
WhiteSpace == {" ", "\t", "\n"}

IndexIn(chars, c) == CHOOSE i \in 1..Len(chars) : chars[i] = c

CharsOf(chars) == {chars[i] : i \in 1..Len(chars)}

LowerTable == [c \in CharsOf(UpperChars) |-> LowerChars[IndexIn(UpperChars, c)]]

isUpperChar(c) == c \in DOMAIN LowerTable

toLowerChar(c) == IF isUpperChar(c) THEN LowerTable[c] ELSE c

toLowerCase(s) == [i \in 1..Len(s) |-> toLowerChar(s[i])]

RECURSIVE trimStart(_)
trimStart(s) == IF s # <<>> /\ s[1] \in WhiteSpace THEN trimStart(Tail(s)) ELSE s

RECURSIVE trimEnd(_)
trimEnd(s) ==
    IF s # <<>> /\ s[Len(s)] \in WhiteSpace THEN trimEnd(SubSeq(s, 1, Len(s) - 1)) ELSE s

trim(s) == trimEnd(trimStart(s))

includes(hay, needle) ==
    \E i \in 0..(Len(hay) - Len(needle)) : SubSeq(hay, i + 1, i + Len(needle)) = needle

(* String.prototype.localeCompare under the default collation: characters   *)
(* compare first by their base letter (space and punctuation before digits  *)
(* before letters), a shorter prefix sorts first, and strings equal up to   *)
(* case compare lower case before upper case at the first case difference.  *)
CollationOrder == <<" ", "-", "/", "0","1","2","3","4","5","6","7","8","9",
                    "a","b","c","d","e","f","g","h","i","j","k","l","m",
                    "n","o","p","q","r","s","t","u","v","w","x","y","z">>

CollationTable == [c \in CharsOf(CollationOrder) |-> IndexIn(CollationOrder, c)]

PrimaryWeight(c) ==
    IF toLowerChar(c) \in DOMAIN CollationTable THEN CollationTable[toLowerChar(c)] ELSE 0

RECURSIVE PrimaryCompare(_, _)
PrimaryCompare(a, b) ==
    IF a = <<>> /\ b = <<>> THEN 0
    ELSE IF a = <<>> THEN -1
    ELSE IF b = <<>> THEN 1
    ELSE IF PrimaryWeight(a[1]) < PrimaryWeight(b[1]) THEN -1
    ELSE IF PrimaryWeight(a[1]) > PrimaryWeight(b[1]) THEN 1
    ELSE PrimaryCompare(Tail(a), Tail(b))

RECURSIVE CaseCompare(_, _)
CaseCompare(a, b) ==
    IF a = <<>> \/ b = <<>> THEN 0
    ELSE IF a[1] = b[1] THEN CaseCompare(Tail(a), Tail(b))
    ELSE IF ~isUpperChar(a[1]) THEN -1 ELSE 1

localeCompare(a, b) ==
    IF PrimaryCompare(a, b) # 0 THEN PrimaryCompare(a, b) ELSE CaseCompare(a, b)

----------------------------------------------------------------------------
(* types.ts *)

PASS == "PASS"
FAIL == "FAIL"
WARNING == "WARNING"
NEEDS_CLARIFICATION == "NEEDS_CLARIFICATION"
ComplianceStatus == {PASS, FAIL, WARNING, NEEDS_CLARIFICATION}

NULL == "null"

(* boundingBox?: number[] -- NoBox is the absent property (undefined). *)
NoBox == <<>>

(* The value undefined of an optional string (an absent reference, no      *)
(* consultContext); it is not a string.                                    *)
Undefined == <<"undefined">>

(* ChatInterface values.  The greeting is abridged. *)
sGreeting == <<"H","e","l","l","o","!">>
InitialMessages == <<[role |-> "model", text |-> sGreeting]>>
userMessage(text) == [role |-> "user", text |-> text]
ChatRequest(history, text) == [history |-> history, message |-> text]

sGeneral == <<"G","e","n","e","r","a","l">>
sSystem == <<"S","y","s","t","e","m">>
sFire == <<"F","i","r","e">>
sEgress == <<"E","g","r","e","s","s">>
sConstructor == <<"c","o","n","s","t","r","u","c","t","o","r">>
sEmpty == <<>>

ComplianceFinding(id, category, description, reference, status, boundingBox) ==
    [id |-> id, category |-> category, description |-> description,
     reference |-> reference, status |-> status, boundingBox |-> boundingBox]

(* The findings a provider Report is built from.  Every one is a           *)
(* well-typed ComplianceFinding (types.ts:8-17).                           *)
A1 == ComplianceFinding("A1", sFire, <<"E","x","i","t"," ","d","o","o","r">>,
                        <<"S","B","C"," ","1">>, FAIL, <<100, 200, 300, 600>>)
A2 == ComplianceFinding("A2", sFire, <<"S","t","a","i","r">>,
                        <<"S","B","C"," ","2">>, WARNING, NoBox)
A3 == ComplianceFinding("A3", sEgress, <<"D","o","o","r">>,
                        <<"S","B","C"," ","1">>, FAIL, <<500, 500, 200, 200>>)
B1 == ComplianceFinding("B1", sEgress, <<"f","i","r","e"," ","e","x","i","t">>,
                        <<"N","/","A">>, PASS, <<50, 50, 200, 200>>)
G1 == ComplianceFinding("G1", sEmpty, <<"R","a","m","p">>,
                        <<"s","b","c"," ","3">>, NEEDS_CLARIFICATION, <<150, 0, 1000, 1000>>)
K1 == ComplianceFinding("K1", sConstructor, <<"W","a","l","l">>,
                        <<"S","B","C"," ","4">>, WARNING, <<150, 100, 400, 300>>)

FindingPool == {A1, A2, A3, B1, G1, K1}

CategoryNames == {IF f.category # sEmpty THEN f.category ELSE sGeneral : f \in FindingPool}

RECURSIVE SeqsUpTo(_, _)
SeqsUpTo(S, n) ==
    IF n = 0 THEN {<<>>}
    ELSE LET shorter == SeqsUpTo(S, n - 1)
         IN shorter \cup {Append(q, x) : q \in {p \in shorter : Len(p) = n - 1}, x \in S}

FindingLists ==
    {q \in SeqsUpTo(FindingPool, MaxFindings) :
        \A i, j \in 1..Len(q) : i # j => q[i].id # q[j].id}

(* scanDate (the clock reading at completion) is not modelled. *)
AnalysisReport(score, summary, fileName, findings, image) ==
    [overallScore |-> score, summary |-> summary, fileName |-> fileName,
     findings |-> findings, imageBase64 |-> image]

----------------------------------------------------------------------------
(* Array.prototype.sort() without a comparator: UTF-16 code unit order. *)

CodeUnitOrder == <<"\t", "\n", " ", "-", "/", "0","1","2","3","4","5","6","7","8","9",
                   "A","B","C","D","E","F","G","H","I","J","K","L","M",
                   "N","O","P","Q","R","S","T","U","V","W","X","Y","Z",
                   "a","b","c","d","e","f","g","h","i","j","k","l","m",
                   "n","o","p","q","r","s","t","u","v","w","x","y","z">>

CodeUnitTable == [c \in CharsOf(CodeUnitOrder) |-> IndexIn(CodeUnitOrder, c)]

CodeUnit(c) == IF c \in DOMAIN CodeUnitTable THEN CodeUnitTable[c] ELSE 0

RECURSIVE codeUnitLess(_, _)
codeUnitLess(a, b) ==
    IF b = <<>> THEN FALSE
    ELSE IF a = <<>> THEN TRUE
    ELSE IF a[1] = b[1] THEN codeUnitLess(Tail(a), Tail(b))
    ELSE CodeUnit(a[1]) < CodeUnit(b[1])

RECURSIVE sortStrings(_)
sortStrings(S) ==
    IF S = {} THEN <<>>
    ELSE LET least == CHOOSE x \in S : \A y \in S \ {x} : codeUnitLess(x, y)
         IN <<least>> \o sortStrings(S \ {least})

Range(q) == {q[i] : i \in 1..Len(q)}

----------------------------------------------------------------------------
(* ComplianceReport.tsx: derived values *)

categoryOrGeneral(f) == IF f.category # sEmpty THEN f.category ELSE sGeneral

allCategories(findings) == sortStrings({categoryOrGeneral(f) : f \in Range(findings)})

(* Mutant: keeps only the first finding of the status (find for filter). *)
filterByStatusFirstOnly(findings, status) ==
    IF status # "ALL"
    THEN LET kept == SelectSeq(findings, LAMBDA f : f.status = status)
         IN IF kept = <<>> THEN <<>> ELSE <<kept[1]>>
    ELSE findings

filterByStatus(findings, status) ==
    IF status # "ALL"
    THEN SelectSeq(findings, LAMBDA f : f.status = status)
    ELSE findings

(* Mutant: the fields are not lower-cased before the comparison. *)
matchesSearchCaseSensitive(f, lowerSearch) ==
    \/ includes(f.description, lowerSearch)
    \/ includes(f.reference, lowerSearch)
    \/ includes(f.category, lowerSearch)

matchesSearch(f, lowerSearch) ==
    \/ includes(toLowerCase(f.description), lowerSearch)
    \/ includes(toLowerCase(f.reference), lowerSearch)
    \/ includes(toLowerCase(f.category), lowerSearch)

filterBySearch(findings, text) ==
    IF trim(text) # <<>>
    THEN LET lowerSearch == toLowerCase(text)
         IN SelectSeq(findings, LAMBDA f : matchesSearch(f, lowerSearch))
    ELSE findings

severityOrder(status) ==
    CASE status = FAIL -> 0
      [] status = WARNING -> 1
      [] status = NEEDS_CLARIFICATION -> 2
      [] status = PASS -> 3

compareFindings(a, b, key) ==
    IF key = "REFERENCE" THEN localeCompare(a.reference, b.reference)
    ELSE IF key = "SEVERITY" THEN severityOrder(a.status) - severityOrder(b.status)
    ELSE 0

(* Array.prototype.sort with a comparator is stable (ECMAScript 2019):     *)
(* insertion from the left, an element moving only past strictly greater   *)
(* ones.                                                                   *)
(* Mutant: an element also moves past elements that compare equal. *)
RECURSIVE insertSortedUnstable(_, _, _)
insertSortedUnstable(sorted, x, key) ==
    IF sorted = <<>> \/ compareFindings(sorted[Len(sorted)], x, key) < 0
    THEN Append(sorted, x)
    ELSE Append(insertSortedUnstable(SubSeq(sorted, 1, Len(sorted) - 1), x, key),
                sorted[Len(sorted)])

RECURSIVE insertSorted(_, _, _)
insertSorted(sorted, x, key) ==
    IF sorted = <<>> \/ compareFindings(sorted[Len(sorted)], x, key) <= 0
    THEN Append(sorted, x)
    ELSE Append(insertSorted(SubSeq(sorted, 1, Len(sorted) - 1), x, key), sorted[Len(sorted)])

RECURSIVE sortFindings(_, _)
sortFindings(findings, key) ==
    IF findings = <<>> THEN <<>>
    ELSE insertSorted(sortFindings(SubSeq(findings, 1, Len(findings) - 1), key),
                      findings[Len(findings)], key)

filteredFindings(findings, status, text) ==
    filterBySearch(filterByStatus(findings, status), text)

processedFindings(findings, status, text, key) ==
    sortFindings(filteredFindings(findings, status, text), key)

(* Own and inherited properties of the object literal {} that             *)
(* groupedFindings indexes by category: a key found on Object.prototype    *)
(* reads as a value that is truthy and has no push method.                 *)
ObjectPrototypeKeys ==
    {sConstructor,
     <<"t","o","S","t","r","i","n","g">>,
     <<"v","a","l","u","e","O","f">>,
     <<"h","a","s","O","w","n","P","r","o","p","e","r","t","y">>}

NoGroups == [c \in {} |-> <<>>]

groupStep(acc, finding) ==
    LET cat == categoryOrGeneral(finding)
    IN IF acc.threw THEN acc
       ELSE IF cat \in DOMAIN acc.groups
            THEN [acc EXCEPT !.groups[cat] = Append(@, finding)]
       ELSE IF cat \in ObjectPrototypeKeys
            THEN [acc EXCEPT !.threw = TRUE]
       ELSE [acc EXCEPT !.groups = @ @@ (cat :> <<finding>>)]

RECURSIVE groupedFindings(_)
groupedFindings(processed) ==
    IF processed = <<>> THEN [threw |-> FALSE, groups |-> NoGroups]
    ELSE groupStep(groupedFindings(SubSeq(processed, 1, Len(processed) - 1)),
                   processed[Len(processed)])

categories(grouped) == sortStrings(DOMAIN grouped.groups)

matchesDrawingSearch(f, term) ==
    \/ includes(toLowerCase(f.description), term)
    \/ includes(toLowerCase(f.reference), term)
    \/ (f.category # sEmpty /\ includes(toLowerCase(f.category), term))

(* Mutant: a finding that matches the drawing search is shown before the   *)
(* hidden-layer test is reached.                                           *)
isVisibleOnDrawingSearchFirst(f, hidden, dsearch) ==
    IF f.boundingBox = NoBox THEN FALSE
    ELSE IF trim(dsearch) # <<>> THEN matchesDrawingSearch(f, toLowerCase(dsearch))
    ELSE IF categoryOrGeneral(f) \in hidden THEN FALSE
    ELSE TRUE

isVisibleOnDrawing(f, hidden, dsearch) ==
    IF f.boundingBox = NoBox THEN FALSE
    ELSE IF categoryOrGeneral(f) \in hidden THEN FALSE
    ELSE IF trim(dsearch) # <<>> THEN matchesDrawingSearch(f, toLowerCase(dsearch))
    ELSE TRUE

visibleDrawingFindings(processed, hidden, dsearch) ==
    SelectSeq(processed, LAMBDA f : isVisibleOnDrawing(f, hidden, dsearch))

(* SVG overlay: one rectangle per member of the overlay set; values are     *)
(* percentages times 1000.                                                  *)
overlayRectTransposed(f) ==
    [id |-> f.id,
     x |-> f.boundingBox[1] * 100,
     y |-> f.boundingBox[2] * 100,
     width |-> (f.boundingBox[3] - f.boundingBox[1]) * 100,
     height |-> (f.boundingBox[4] - f.boundingBox[2]) * 100]

overlayRect(f) ==
    [id |-> f.id,
     x |-> f.boundingBox[2] * 100,
     y |-> f.boundingBox[1] * 100,
     width |-> (f.boundingBox[4] - f.boundingBox[2]) * 100,
     height |-> (f.boundingBox[3] - f.boundingBox[1]) * 100]

overlayRects(visible) ==
    LET drawn == SelectSeq(visible, LAMBDA f : f.boundingBox # NoBox)
    IN [i \in 1..Len(drawn) |-> overlayRect(drawn[i])]

tooltipsBelowAtBoundary(visible, active, hovered) ==
    LET shown == SelectSeq(visible, LAMBDA f :
                     ~((f.id # active /\ f.id # hovered) \/ f.boundingBox = NoBox))
    IN [i \in 1..Len(shown) |->
           [id |-> shown[i].id,
            top |-> shown[i].boundingBox[1] * 100,
            left |-> shown[i].boundingBox[2] * 100,
            isNearTop |-> shown[i].boundingBox[1] * 100 <= 15000]]

tooltips(visible, active, hovered) ==
    LET shown == SelectSeq(visible, LAMBDA f :
                     ~((f.id # active /\ f.id # hovered) \/ f.boundingBox = NoBox))
    IN [i \in 1..Len(shown) |->
           [id |-> shown[i].id,
            top |-> shown[i].boundingBox[1] * 100,
            left |-> shown[i].boundingBox[2] * 100,
            isNearTop |-> shown[i].boundingBox[1] * 100 < 15000]]

----------------------------------------------------------------------------
(* The mounted ComplianceReport and its state *)

report == analysisReport[1]

MountedIn(authenticated, shown, analyzing, rep) ==
    authenticated /\ shown = "report" /\ ~analyzing /\ rep # <<>>

Mounted == MountedIn(isAuthenticated, view, isAnalyzing, analysisReport)

curFiltered == filteredFindings(report.findings, filterStatus, searchText)
curProcessed == processedFindings(report.findings, filterStatus, searchText, sortBy)
curGrouped == groupedFindings(curProcessed)
curVisible == visibleDrawingFindings(curProcessed, hiddenLayers, drawingSearch)
curAllCategories == allCategories(report.findings)

(* A render that throws takes the whole React tree down (no error boundary  *)
(* in App.tsx): no handler runs afterwards.                                 *)
RenderThrows == Mounted /\ curGrouped.threw
Rendered == Mounted /\ ~curGrouped.threw

StatusFilterOptions == {"ALL", FAIL, WARNING, PASS}
SortOptions == {"SEVERITY", "REFERENCE"}

SearchStrings ==
    {<<>>, <<" ">>, <<"f","i","r","e">>, <<"S","B","C">>,
     <<"f","i","r","e"," ">>, <<"z","z">>}

DrawingSearchStrings ==
    {<<>>, <<" ">>, <<"E","x","i","t">>, <<"g","e","n","e","r","a","l">>}

(* useState initial values (lines 23-55) followed by the effect of lines    *)
(* 76-80, which runs once the first render has completed.                   *)
DefaultExportConfig ==
    [orientation |-> "portrait", includeSummary |-> TRUE, includeCharts |-> TRUE,
     includeBoundingBoxes |-> FALSE]

InitialExportStatuses == <<FAIL, WARNING, NEEDS_CLARIFICATION, PASS>>

MountedWith(rep) ==
    /\ isExportModalOpen' = FALSE
    /\ isDownloading' = FALSE
    /\ exportConfig' = DefaultExportConfig
    /\ exportStatuses' = InitialExportStatuses
    /\ activeFindingId' = NULL
    /\ hoveredFindingId' = NULL
    /\ filterStatus' = "ALL"
    /\ searchText' = <<>>
    /\ sortBy' = "SEVERITY"
    /\ hiddenLayers' = {}
    /\ showBaseLayer' = TRUE
    /\ drawingSearch' = <<>>
    /\ exportCategories' =
         IF groupedFindings(processedFindings(rep.findings, "ALL", <<>>, "SEVERITY")).threw
         THEN <<>>
         ELSE allCategories(rep.findings)

InitialComponentState(rep) ==
    /\ isExportModalOpen = FALSE
    /\ isDownloading = FALSE
    /\ exportConfig = DefaultExportConfig
    /\ exportStatuses = InitialExportStatuses
    /\ activeFindingId = NULL
    /\ hoveredFindingId = NULL
    /\ filterStatus = "ALL"
    /\ searchText = <<>>
    /\ sortBy = "SEVERITY"
    /\ hiddenLayers = {}
    /\ showBaseLayer = TRUE
    /\ drawingSearch = <<>>
    /\ exportCategories =
         IF groupedFindings(processedFindings(rep.findings, "ALL", <<>>, "SEVERITY")).threw
         THEN <<>>
         ELSE allCategories(rep.findings)

SetFilterStatus(opt) ==
    /\ Rendered
    /\ filterStatus' = opt
    /\ UNCHANGED <<appVars, sideVars, downloadVars, searchText, sortBy, layerVars, pointerVars, exportCategories>>

SetSearchText(text) ==
    /\ Rendered
    /\ searchText' = text
    /\ UNCHANGED <<appVars, sideVars, downloadVars, filterStatus, sortBy, layerVars, pointerVars, exportCategories>>

SetSortByInPlace(key) ==
    /\ Rendered
    /\ sortBy' = key
    /\ analysisReport' =
         <<[report EXCEPT !.findings = sortFindings(report.findings, key)]>>
    /\ UNCHANGED <<isAnalyzing, view, isAuthenticated, pending, lastCall, sideVars,
                   downloadVars, filterStatus, searchText, layerVars, pointerVars,
                   exportCategories>>

SetSortBy(key) ==
    /\ Rendered
    /\ sortBy' = key
    /\ UNCHANGED <<appVars, sideVars, downloadVars, filterStatus, searchText, layerVars, pointerVars, exportCategories>>

(* Mutant: the category is added whether or not it was hidden. *)
toggleLayerSetAddOnly(prev, category) == prev \cup {category}

toggleLayerSet(prev, category) ==
    IF category \in prev THEN prev \ {category} ELSE prev \cup {category}

(* The layer menu offers one button per member of allCategories. *)
ToggleLayer(category) ==
    /\ Rendered
    /\ category \in Range(curAllCategories)
    /\ hiddenLayers' = toggleLayerSet(hiddenLayers, category)
    /\ UNCHANGED <<appVars, sideVars, downloadVars, listVars, showBaseLayer, drawingSearch, pointerVars, exportCategories>>

ToggleBase ==
    /\ Rendered
    /\ showBaseLayer' = ~showBaseLayer
    /\ UNCHANGED <<appVars, sideVars, downloadVars, listVars, hiddenLayers, drawingSearch, pointerVars, exportCategories>>

(* Mutant: the hidden set is cleared but the base layer is left as it is. *)
ResetLayersKeepsBase ==
    /\ Rendered
    /\ hiddenLayers # {} \/ ~showBaseLayer
    /\ hiddenLayers' = {}
    /\ UNCHANGED <<appVars, sideVars, downloadVars, listVars, showBaseLayer, drawingSearch, pointerVars, exportCategories>>

ResetLayers ==
    /\ Rendered
    /\ hiddenLayers # {} \/ ~showBaseLayer
    /\ hiddenLayers' = {}
    /\ showBaseLayer' = TRUE
    /\ UNCHANGED <<appVars, sideVars, downloadVars, listVars, drawingSearch, pointerVars, exportCategories>>

SetDrawingSearch(text) ==
    /\ Rendered
    /\ drawingSearch' = text
    /\ UNCHANGED <<appVars, sideVars, downloadVars, listVars, hiddenLayers, showBaseLayer, pointerVars, exportCategories>>

(* Clicks come from a card of the findings list or a rectangle of the overlay. *)
HandleFindingClickAlsoHovers(id) ==
    /\ Rendered
    /\ \/ \E f \in Range(curProcessed) : f.id = id
       \/ \E f \in Range(curVisible) : f.id = id
    /\ activeFindingId' = id
    /\ hoveredFindingId' = id
    /\ UNCHANGED <<appVars, sideVars, downloadVars, listVars, layerVars, exportCategories>>

HandleFindingClick(id) ==
    /\ Rendered
    /\ \/ \E f \in Range(curProcessed) : f.id = id
       \/ \E f \in Range(curVisible) : f.id = id
    /\ activeFindingId' = id
    /\ UNCHANGED <<appVars, sideVars, downloadVars, listVars, layerVars, hoveredFindingId, exportCategories>>

MouseEnter(id) ==
    /\ Rendered
    /\ \E f \in Range(curVisible) : f.id = id /\ f.boundingBox # NoBox
    /\ hoveredFindingId' = id
    /\ UNCHANGED <<appVars, sideVars, downloadVars, listVars, layerVars, activeFindingId, exportCategories>>

MouseLeave ==
    /\ Rendered
    /\ \E f \in Range(curVisible) : f.boundingBox # NoBox
    /\ hoveredFindingId' = NULL
    /\ UNCHANGED <<appVars, sideVars, downloadVars, listVars, layerVars, activeFindingId, exportCategories>>

toggleExportCategoryList(prev, category) ==
    IF category \in Range(prev)
    THEN SelectSeq(prev, LAMBDA c : c # category)
    ELSE Append(prev, category)

ToggleExportCategory(category) ==
    /\ Rendered
    /\ category \in Range(curAllCategories)
    /\ exportCategories' = toggleExportCategoryList(exportCategories, category)
    /\ UNCHANGED <<appVars, sideVars, downloadVars, listVars, layerVars, pointerVars>>

(* The Select All / Deselect All button (line 760). *)
bulkExportCategoriesList(prev, all) ==
    IF Len(prev) = Len(all) THEN <<>> ELSE all

BulkExportCategories ==
    /\ Rendered
    /\ exportCategories' = bulkExportCategoriesList(exportCategories, curAllCategories)
    /\ UNCHANGED <<appVars, sideVars, downloadVars, listVars, layerVars, pointerVars>>

----------------------------------------------------------------------------
(* Reports the provider returns, and the App showing one of them *)

ProviderReports == {AnalysisReport(80, "ok", "plan.png", fl, "img") : fl \in FindingLists}

AppShows(rep) ==
    /\ analysisReport = <<rep>>
    /\ isAnalyzing = FALSE
    /\ view = "report"
    /\ isAuthenticated = TRUE
    /\ pending = <<>>
    /\ lastCall = <<>>
    /\ lastHandler = <<"none", <<>>>>
    /\ timers = <<>>
    /\ lastAlert = <<>>
    /\ isChatOpen = FALSE
    /\ consultContext = Undefined
    /\ messages = InitialMessages
    /\ input = <<>>
    /\ isLoading = FALSE
    /\ chatPending = <<>>
    /\ error = NULL

(* SpecList: one displayed Report, the controls of the findings list. *)
InitList == \E rep \in ProviderReports : AppShows(rep) /\ InitialComponentState(rep)

NextList ==
    \/ \E opt \in StatusFilterOptions : SetFilterStatus(opt) /\ UNCHANGED lastHandler
    \/ \E text \in SearchStrings : SetSearchText(text) /\ UNCHANGED lastHandler
    \/ \E key \in SortOptions : SetSortBy(key) /\ UNCHANGED lastHandler

SpecList == InitList /\ [][NextList]_vars

----------------------------------------------------------------------------
(* Claims about the findings list *)

PositionIn(q, x) == CHOOSE i \in 1..Len(q) : q[i] = x

IsSubsequenceInOrder(sub, q) ==
    /\ Range(sub) \subseteq Range(q)
    /\ \A i, j \in 1..Len(sub) : i < j => PositionIn(q, sub[i]) < PositionIn(q, sub[j])

(* C1: groupedFindings is a partition of processedFindings: every finding   *)
(* of processedFindings is in exactly one bucket, the bucket of its         *)
(* category (General when empty), no bucket holds anything else, and each   *)
(* bucket keeps the relative order of processedFindings.                    *)
C1_GroupingPartitions ==
    /\ ~curGrouped.threw
    /\ \A i \in 1..Len(curProcessed) :
          /\ categoryOrGeneral(curProcessed[i]) \in DOMAIN curGrouped.groups
          /\ \A c \in DOMAIN curGrouped.groups :
                Cardinality({k \in 1..Len(curGrouped.groups[c]) :
                                curGrouped.groups[c][k] = curProcessed[i]})
                  = IF c = categoryOrGeneral(curProcessed[i]) THEN 1 ELSE 0
    /\ \A c \in DOMAIN curGrouped.groups :
          IsSubsequenceInOrder(curGrouped.groups[c], curProcessed)

ClaimedSeverity == <<FAIL, WARNING, NEEDS_CLARIFICATION, PASS>>

(* C2: with sort key SEVERITY processedFindings is a permutation of the     *)
(* filtered findings, ordered FAIL, WARNING, NEEDS_CLARIFICATION, PASS, and *)
(* findings of equal status keep their relative order of report.findings.   *)
C2_SeveritySortStable ==
    sortBy = "SEVERITY" =>
      /\ Len(curProcessed) = Len(curFiltered)
      /\ Range(curProcessed) = Range(curFiltered)
      /\ \A i, j \in 1..Len(curProcessed) : i < j =>
            /\ PositionIn(ClaimedSeverity, curProcessed[i].status)
                 <= PositionIn(ClaimedSeverity, curProcessed[j].status)
            /\ curProcessed[i].status = curProcessed[j].status =>
                 PositionIn(report.findings, curProcessed[i])
                   < PositionIn(report.findings, curProcessed[j])

C2_Witness ==
    /\ sortBy = "SEVERITY"
    /\ curProcessed # curFiltered
    /\ \E i, j \in 1..Len(curProcessed) :
          i < j /\ curProcessed[i].status = curProcessed[j].status

ClaimedKeep(f, status, text) ==
    /\ status = "ALL" \/ f.status = status
    /\ \/ trim(text) = <<>>
       \/ includes(toLowerCase(f.description), toLowerCase(text))
       \/ includes(toLowerCase(f.reference), toLowerCase(text))
       \/ includes(toLowerCase(f.category), toLowerCase(text))

(* C3: the filter stage yields exactly the findings of report.findings      *)
(* that pass the status filter and the search, in their original order;     *)
(* the empty sequence when nothing matches.                                 *)
C3_FilterIsSubsequence ==
    /\ \A f \in Range(report.findings) :
          f \in Range(curFiltered) <=> ClaimedKeep(f, filterStatus, searchText)
    /\ IsSubsequenceInOrder(curFiltered, report.findings)
    /\ Len(curFiltered) = Cardinality(Range(curFiltered))

C3_Witness ==
    /\ filterStatus # "ALL"
    /\ searchText # <<>>
    /\ isUpperChar(searchText[1])
    /\ Len(curFiltered) >= 2
    /\ Len(curFiltered) < Len(report.findings)

(* C4: status filter then search gives the same sequence as search then     *)
(* status filter.                                                           *)
C4_FilterOrderIndependent ==
    filterBySearch(filterByStatus(report.findings, filterStatus), searchText)
      = filterByStatus(filterBySearch(report.findings, searchText), filterStatus)

C4_Witness ==
    /\ filterStatus # "ALL"
    /\ trim(searchText) # <<>>
    /\ filterByStatus(report.findings, filterStatus) # report.findings
    /\ filterBySearch(report.findings, searchText) # report.findings
    /\ curFiltered # <<>>
    /\ curFiltered # filterByStatus(report.findings, filterStatus)
    /\ curFiltered # filterBySearch(report.findings, searchText)

----------------------------------------------------------------------------
(* SpecOverlay: one displayed Report, the list controls, the layer menu     *)
(* and the drawing search.                                                  *)
InitOverlay == \E rep \in ProviderReports : AppShows(rep) /\ InitialComponentState(rep)

NextOverlay ==
    \/ \E opt \in StatusFilterOptions : SetFilterStatus(opt) /\ UNCHANGED lastHandler
    \/ \E text \in SearchStrings : SetSearchText(text) /\ UNCHANGED lastHandler
    \/ \E key \in SortOptions : SetSortBy(key) /\ UNCHANGED lastHandler
    \/ \E text \in DrawingSearchStrings : SetDrawingSearch(text) /\ UNCHANGED lastHandler
    \/ \E c \in CategoryNames : ToggleLayer(c) /\ UNCHANGED lastHandler

SpecOverlay == InitOverlay /\ [][NextOverlay]_vars

ClaimedDrawingMatch(f, text) ==
    \/ includes(toLowerCase(f.description), toLowerCase(text))
    \/ includes(toLowerCase(f.reference), toLowerCase(text))
    \/ includes(toLowerCase(f.category), toLowerCase(text))

(* C5: the visible overlay set holds no finding without a bounding box and  *)
(* no finding of a hidden category, whatever the searches match, and holds  *)
(* every finding of processedFindings that has a box, is not hidden and     *)
(* matches the drawing search (or the drawing search trims to empty).       *)
C5_OverlayMembership ==
    /\ Range(curVisible) \subseteq Range(curProcessed)
    /\ \A f \in Range(curVisible) :
          f.boundingBox # NoBox /\ categoryOrGeneral(f) \notin hiddenLayers
    /\ \A f \in Range(curProcessed) :
          ( /\ f.boundingBox # NoBox
            /\ categoryOrGeneral(f) \notin hiddenLayers
            /\ trim(drawingSearch) = <<>> \/ ClaimedDrawingMatch(f, drawingSearch) )
          => f \in Range(curVisible)

C5_Witness ==
    /\ trim(searchText) # <<>>
    /\ trim(drawingSearch) # <<>>
    /\ curVisible # <<>>
    /\ \E f \in Range(curProcessed) :
          /\ f.boundingBox # NoBox
          /\ categoryOrGeneral(f) \in hiddenLayers
          /\ ClaimedDrawingMatch(f, drawingSearch)

ViolatesBoxOrder(box) == box[1] >= box[3] \/ box[2] >= box[4]

(* C6: a finding whose box has ymin >= ymax or xmin >= xmax is never in the *)
(* visible overlay set and gets no rectangle and no tooltip, and it is      *)
(* still listed in its bucket of the grouped findings.                      *)
C6_MalformedBoxExcluded ==
    \A f \in Range(curProcessed) :
        (f.boundingBox # NoBox /\ ViolatesBoxOrder(f.boundingBox)) =>
           /\ f \notin Range(curVisible)
           /\ \A r \in Range(overlayRects(curVisible)) : r.id # f.id
           /\ \A t \in Range(tooltips(curVisible, activeFindingId, hoveredFindingId)) :
                 t.id # f.id
           /\ ~curGrouped.threw =>
                 f \in Range(curGrouped.groups[categoryOrGeneral(f)])

----------------------------------------------------------------------------
(* SpecLayers: one displayed Report and every control of the component     *)
(* except the drawing search; lastHandler records which handler ran.        *)
SampleLists == {<<A1, A2, B1>>, <<G1, A3>>}

SampleReports == {AnalysisReport(80, "ok", "plan.png", fl, "img") : fl \in SampleLists}

LayerListSearches == {<<>>, <<"f","i","r","e">>}

InitLayers == \E rep \in SampleReports : AppShows(rep) /\ InitialComponentState(rep)

NextLayers ==
    \/ \E c \in CategoryNames : ToggleLayer(c) /\ lastHandler' = <<"toggleLayer", c>>
    \/ ToggleBase /\ lastHandler' = <<"toggleBase", <<>>>>
    \/ ResetLayers /\ lastHandler' = <<"reset", <<>>>>
    \/ \E opt \in StatusFilterOptions : SetFilterStatus(opt) /\ lastHandler' = <<"other", <<>>>>
    \/ \E text \in LayerListSearches : SetSearchText(text) /\ lastHandler' = <<"other", <<>>>>
    \/ \E key \in SortOptions : SetSortBy(key) /\ lastHandler' = <<"other", <<>>>>
    \/ \E f \in FindingPool : HandleFindingClick(f.id) /\ lastHandler' = <<"other", <<>>>>
    \/ \E f \in FindingPool : MouseEnter(f.id) /\ lastHandler' = <<"other", <<>>>>
    \/ MouseLeave /\ lastHandler' = <<"other", <<>>>>
    \/ \E c \in CategoryNames : ToggleExportCategory(c) /\ lastHandler' = <<"other", <<>>>>
    \/ BulkExportCategories /\ lastHandler' = <<"other", <<>>>>

SpecLayers == InitLayers /\ [][NextLayers]_vars

(* C7: toggleLayer(c) flips the membership of c in the hidden set, leaves   *)
(* the membership of every other category as it was, and a second          *)
(* toggleLayer(c) gives back the original hidden set.                      *)
C7_ToggleLayerFlips ==
    [][\A c \in CategoryNames : lastHandler' = <<"toggleLayer", c>> =>
          /\ (c \in hiddenLayers') <=> (c \notin hiddenLayers)
          /\ \A d \in CategoryNames \ {c} : (d \in hiddenLayers') <=> (d \in hiddenLayers)
          /\ toggleLayerSet(hiddenLayers', c) = hiddenLayers]_vars

C7_Witness ==
    /\ lastHandler[1] = "toggleLayer"
    /\ Cardinality(hiddenLayers) = 1
    /\ Len(curAllCategories) >= 2

(* C9: reset() leaves hiddenLayers empty and showBaseLayer true and changes *)
(* no other state (filters, search text, sort key, active and hovered id,   *)
(* export selection).                                                       *)
C9_ResetFrame ==
    [][lastHandler' = <<"reset", <<>>>> =>
          /\ hiddenLayers' = {}
          /\ showBaseLayer' = TRUE
          /\ UNCHANGED <<filterStatus, searchText, sortBy, drawingSearch,
                         activeFindingId, hoveredFindingId, exportCategories,
                         analysisReport, isAnalyzing, view>>]_vars

C9_Witness ==
    /\ lastHandler[1] = "reset"
    /\ hiddenLayers = {}
    /\ showBaseLayer
    /\ filterStatus # "ALL"
    /\ searchText # <<>>
    /\ sortBy # "SEVERITY"
    /\ activeFindingId # NULL
    /\ hoveredFindingId # NULL
    /\ exportCategories # curAllCategories

----------------------------------------------------------------------------
(* geminiService.ts: analyzeDrawingImage *)

ProviderThrows == [kind |-> "throws", data |-> <<>>]
ProviderRejects == [kind |-> "rejects", data |-> <<>>]
ResponseNoText == [kind |-> "noText", data |-> <<>>]
ResponseInvalidJson == [kind |-> "invalidJson", data |-> <<>>]
ResponseJson(payload) == [kind |-> "json", data |-> <<payload>>]

ProviderPayloads ==
    {[overallScore |-> 80, summary |-> "ok", findings |-> fl] : fl \in SampleLists}

ProviderOutcomes ==
    {ProviderThrows, ProviderRejects, ResponseNoText, ResponseInvalidJson}
      \cup {ResponseJson(p) : p \in ProviderPayloads}

FailureKinds == {"throws", "rejects", "noText", "invalidJson"}

sCouldNot == <<"C","o","u","l","d"," ","n","o","t"," ","c","o","m","p","l","e","t","e",
               " ","A","I"," ","a","n","a","l","y","s","i","s",".">>

FallbackFinding ==
    ComplianceFinding("err-1", sSystem, sCouldNot, <<"N","/","A">>, FAIL,
                      <<100, 100, 900, 900>>)

FallbackReport(base64Image, fileName) ==
    AnalysisReport(0, "Error processing analysis.", fileName, <<FallbackFinding>>, base64Image)

(* The try block (lines 36-101): its value, or that it threw. *)
analyzeTryBlock(base64Image, fileName, outcome) ==
    IF outcome.kind \in {"throws", "rejects"}
    THEN [threw |-> TRUE, value |-> <<>>]
    ELSE IF outcome.kind # "noText"
         THEN IF outcome.kind = "invalidJson"
              THEN [threw |-> TRUE, value |-> <<>>]
              ELSE [threw |-> FALSE,
                    value |-> <<AnalysisReport(outcome.data[1].overallScore,
                                               outcome.data[1].summary, fileName,
                                               outcome.data[1].findings, base64Image)>>]
         ELSE [threw |-> TRUE, value |-> <<>>]

(* Mutant: a response that does not parse escapes the catch block. *)
analyzeDrawingImageParseEscapes(base64Image, fileName, outcome) ==
    LET attempt == analyzeTryBlock(base64Image, fileName, outcome)
    IN IF outcome.kind = "invalidJson"
       THEN [settled |-> "rejected", report |-> <<>>]
       ELSE IF attempt.threw
            THEN [settled |-> "resolved", report |-> <<FallbackReport(base64Image, fileName)>>]
            ELSE [settled |-> "resolved", report |-> attempt.value]

analyzeDrawingImage(base64Image, fileName, outcome) ==
    LET attempt == analyzeTryBlock(base64Image, fileName, outcome)
    IN IF attempt.threw
       THEN [settled |-> "resolved", report |-> <<FallbackReport(base64Image, fileName)>>]
       ELSE [settled |-> "resolved", report |-> attempt.value]

----------------------------------------------------------------------------
(* App.tsx *)

Files == {[name |-> "a.png", base64 |-> "imgA"], [name |-> "b.png", base64 |-> "imgB"]}

(* What becomes of the ComplianceReport state over a step of the App: it is *)
(* created afresh when the component mounts, dropped when it unmounts, and  *)
(* kept when the component stays mounted and only its report prop changes   *)
(* (then the effect of lines 76-80 runs again for the new allCategories).   *)
ComponentFollows ==
    IF ~MountedIn(isAuthenticated', view', isAnalyzing', analysisReport')
    THEN /\ isExportModalOpen' = FALSE
         /\ isDownloading' = FALSE
         /\ exportConfig' = DefaultExportConfig
         /\ exportStatuses' = InitialExportStatuses
         /\ activeFindingId' = NULL
         /\ hoveredFindingId' = NULL
         /\ filterStatus' = "ALL"
         /\ searchText' = <<>>
         /\ sortBy' = "SEVERITY"
         /\ hiddenLayers' = {}
         /\ showBaseLayer' = TRUE
         /\ drawingSearch' = <<>>
         /\ exportCategories' = <<>>
    ELSE IF ~Mounted
    THEN MountedWith(analysisReport'[1])
    ELSE /\ UNCHANGED <<listVars, layerVars, pointerVars, downloadVars>>
         /\ exportCategories' =
              IF /\ analysisReport' # analysisReport
                 /\ ~groupedFindings(processedFindings(analysisReport'[1].findings,
                                       filterStatus, searchText, sortBy)).threw
                 /\ Len(allCategories(analysisReport'[1].findings)) > 0
                 /\ Len(exportCategories) = 0
              THEN allCategories(analysisReport'[1].findings)
              ELSE exportCategories

(* FileUpload is rendered in the upload view only (App.tsx:238-246); its    *)
(* error state is dropped when the view is left.                            *)
FileUploadFollows ==
    error' = IF isAuthenticated' /\ view' = "upload" THEN error ELSE NULL

(* ChatInterface is rendered in the authenticated layout only (App.tsx:74-  *)
(* 78, 287-291).  When it mounts, its initialMessage effect runs; the       *)
(* replies to an unmounted ChatInterface change nothing.                    *)
ChatInterfaceFollows ==
    IF ~isAuthenticated'
    THEN /\ messages' = InitialMessages
         /\ input' = <<>>
         /\ isLoading' = FALSE
         /\ chatPending' = <<>>
    ELSE IF ~isAuthenticated
    THEN IF consultContext # Undefined /\ isChatOpen /\ trim(consultContext) # <<>>
         THEN /\ messages' = Append(InitialMessages, userMessage(consultContext))
              /\ input' = <<>>
              /\ isLoading' = TRUE
              /\ chatPending' = <<ChatRequest(InitialMessages, consultContext)>>
         ELSE /\ messages' = InitialMessages
              /\ input' = <<>>
              /\ isLoading' = FALSE
              /\ chatPending' = <<>>
    ELSE UNCHANGED chatVars

(* What a handler of the App leaves to the other components: pending        *)
(* timeouts and the App's chat state are not touched.                       *)
OtherComponentsFollow ==
    /\ FileUploadFollows
    /\ ChatInterfaceFollows
    /\ UNCHANGED <<timerVars, chatAppVars>>

NavigatePublic(target) ==
    /\ ~isAuthenticated
    /\ target \in {"landing", "login", "signup"}
    /\ view' = target
    /\ UNCHANGED <<analysisReport, isAnalyzing, isAuthenticated, pending, lastCall>>
    /\ ComponentFollows
    /\ OtherComponentsFollow

handleLogin ==
    /\ ~isAuthenticated
    /\ view \in {"login", "signup"}
    /\ isAuthenticated' = TRUE
    /\ view' = "dashboard"
    /\ UNCHANGED <<analysisReport, isAnalyzing, pending, lastCall>>
    /\ ComponentFollows
    /\ OtherComponentsFollow

handleLogout ==
    /\ isAuthenticated
    /\ ~RenderThrows
    /\ isAuthenticated' = FALSE
    /\ analysisReport' = <<>>
    /\ view' = "landing"
    /\ UNCHANGED <<isAnalyzing, pending, lastCall>>
    /\ ComponentFollows
    /\ OtherComponentsFollow

(* Sidebar "Dashboard", header back button, dashboard "upload" button,      *)
(* sidebar report item.                                                     *)
SetView(target) ==
    /\ isAuthenticated
    /\ ~RenderThrows
    /\ \/ target = "dashboard"
       \/ target = "upload" /\ view = "dashboard"
       \/ target = "report" /\ analysisReport # <<>>
    /\ view' = target
    /\ UNCHANGED <<analysisReport, isAnalyzing, isAuthenticated, pending, lastCall>>
    /\ ComponentFollows
    /\ OtherComponentsFollow

NewAnalysis ==
    /\ isAuthenticated
    /\ ~RenderThrows
    /\ view' = "upload"
    /\ analysisReport' = <<>>
    /\ UNCHANGED <<isAnalyzing, isAuthenticated, pending, lastCall>>
    /\ ComponentFollows
    /\ OtherComponentsFollow

(* handleFileUpload up to its await (lines 28-34). *)
handleFileUpload(file) ==
    /\ isAuthenticated
    /\ ~RenderThrows
    /\ view = "upload"
    /\ Len(pending) < MaxPending
    /\ isAnalyzing' = TRUE
    /\ view' = "report"
    /\ pending' = Append(pending, file)
    /\ UNCHANGED <<analysisReport, isAuthenticated, lastCall>>
    /\ ComponentFollows
    /\ OtherComponentsFollow

RemoveAt(q, i) == SubSeq(q, 1, i - 1) \o SubSeq(q, i + 1, Len(q))

(* The provider settles call i; handleFileUpload resumes (lines 34-41). *)
AnalysisSettles(i, outcome) ==
    /\ i \in 1..Len(pending)
    /\ ~RenderThrows
    /\ LET result == analyzeDrawingImage(pending[i].base64, pending[i].name, outcome)
       IN /\ analysisReport' =
                IF result.settled = "resolved" THEN result.report ELSE analysisReport
          /\ lastCall' = <<[file |-> pending[i], outcome |-> outcome, result |-> result]>>
    /\ isAnalyzing' = FALSE
    /\ pending' = RemoveAt(pending, i)
    /\ UNCHANGED <<view, isAuthenticated>>
    /\ ComponentFollows
    /\ OtherComponentsFollow

InitApp ==
    /\ analysisReport = <<>>
    /\ isAnalyzing = FALSE
    /\ view = "landing"
    /\ isAuthenticated = FALSE
    /\ pending = <<>>
    /\ lastCall = <<>>
    /\ lastHandler = <<"none", <<>>>>
    /\ isExportModalOpen = FALSE
    /\ isDownloading = FALSE
    /\ exportConfig = DefaultExportConfig
    /\ exportStatuses = InitialExportStatuses
    /\ timers = <<>>
    /\ lastAlert = <<>>
    /\ isChatOpen = FALSE
    /\ consultContext = Undefined
    /\ messages = InitialMessages
    /\ input = <<>>
    /\ isLoading = FALSE
    /\ chatPending = <<>>
    /\ error = NULL
    /\ activeFindingId = NULL
    /\ hoveredFindingId = NULL
    /\ filterStatus = "ALL"
    /\ searchText = <<>>
    /\ sortBy = "SEVERITY"
    /\ hiddenLayers = {}
    /\ showBaseLayer = TRUE
    /\ drawingSearch = <<>>
    /\ exportCategories = <<>>

NextApp ==
    \/ \E target \in {"landing", "login", "signup"} : NavigatePublic(target) /\ UNCHANGED lastHandler
    \/ handleLogin /\ UNCHANGED lastHandler
    \/ handleLogout /\ UNCHANGED lastHandler
    \/ \E target \in {"dashboard", "upload", "report"} : SetView(target) /\ UNCHANGED lastHandler
    \/ NewAnalysis /\ UNCHANGED lastHandler
    \/ \E file \in Files : handleFileUpload(file) /\ lastHandler' = <<"handleFileUpload", file>>
    \/ \E i \in 1..MaxPending, outcome \in ProviderOutcomes :
          AnalysisSettles(i, outcome) /\ UNCHANGED lastHandler
    \/ \E c \in CategoryNames \cup {sSystem} : ToggleLayer(c) /\ UNCHANGED lastHandler

SpecApp == InitApp /\ [][NextApp]_vars

(* C8: hiddenLayers never contains a category that is absent from the       *)
(* category list of the Report on display (toggling an unknown category is  *)
(* a no-op).                                                                *)
C8_HiddenWithinReport ==
    Mounted => hiddenLayers \subseteq Range(curAllCategories)

(* C10: whenever the provider call fails (throws, rejects, no text, text    *)
(* that is not JSON) analyzeDrawingImage resolves with overallScore 0 and   *)
(* exactly one finding, FAIL, category System, box [0.1,0.1,0.9,0.9], with  *)
(* the fileName and the image of the request; it never rejects.             *)
C10_FallbackOnFailure ==
    lastCall # <<>> =>
      /\ lastCall[1].result.settled = "resolved"
      /\ lastCall[1].outcome.kind \in FailureKinds =>
           LET r == lastCall[1].result.report[1]
           IN /\ r.overallScore = 0
              /\ Len(r.findings) = 1
              /\ r.findings[1].status = FAIL
              /\ r.findings[1].category = sSystem
              /\ r.findings[1].boundingBox = <<100, 100, 900, 900>>
              /\ r.fileName = lastCall[1].file.name
              /\ r.imageBase64 = lastCall[1].file.base64

C10_Witness ==
    /\ lastCall # <<>>
    /\ lastCall[1].outcome.kind = "invalidJson"
    /\ Mounted
    /\ report.overallScore = 0
    /\ report.fileName = "b.png"

----------------------------------------------------------------------------
(* Reports under the provider's responseSchema (geminiService.ts:40-68):   *)
(* id, category, description, status and recommendation are required,      *)
(* reference, location and boundingBox are optional.  Undefined is the     *)
(* value of an absent reference; it is not a string.                       *)
N1 == ComplianceFinding("N1", sFire, <<"R","a","m","p">>, Undefined, FAIL,
                        <<100, 100, 400, 400>>)
N2 == ComplianceFinding("N2", sEmpty, <<"E","x","i","t">>, Undefined, WARNING, NoBox)

SchemaFindingPool == {A1, A2, G1, N1, N2}

SchemaLists ==
    {q \in SeqsUpTo(SchemaFindingPool, MaxFindings) :
        \A i, j \in 1..Len(q) : i # j => q[i].id # q[j].id}

SchemaReports == {AnalysisReport(80, "ok", "plan.png", fl, "img") : fl \in SchemaLists}

(* f.description.toLowerCase().includes(s) || f.reference.toLowerCase()...: *)
(* the reference is read only when the description does not match, and     *)
(* reading toLowerCase of undefined throws a TypeError.                     *)
searchThrows(findings, text) ==
    /\ trim(text) # <<>>
    /\ \E f \in Range(findings) :
          /\ ~includes(toLowerCase(f.description), toLowerCase(text))
          /\ f.reference = Undefined

(* a.reference.localeCompare(b.reference) throws when a.reference is        *)
(* undefined.  Which element of a pair the engine passes as a is not fixed  *)
(* by the language: the sort throws for certain when it compares at all and *)
(* no element has a reference, and may throw when some element has none.    *)
sortMustThrow(findings, key) ==
    /\ key = "REFERENCE"
    /\ Len(findings) >= 2
    /\ \A f \in Range(findings) : f.reference = Undefined

sortMayThrow(findings, key) ==
    /\ key = "REFERENCE"
    /\ Len(findings) >= 2
    /\ \E f \in Range(findings) : f.reference = Undefined

drawingFilterThrows(findings, hidden, dsearch) ==
    /\ trim(dsearch) # <<>>
    /\ \E f \in Range(findings) :
          /\ f.boundingBox # NoBox
          /\ categoryOrGeneral(f) \notin hidden
          /\ ~includes(toLowerCase(f.description), toLowerCase(dsearch))
          /\ f.reference = Undefined

(* Whether computing processedFindings, visibleDrawingFindings and          *)
(* groupedFindings raises an error for certain.                             *)
pipelineMustThrow(findings, status, text, key, hidden, dsearch) ==
    \/ searchThrows(filterByStatus(findings, status), text)
    \/ /\ ~searchThrows(filterByStatus(findings, status), text)
       /\ \/ sortMustThrow(filteredFindings(findings, status, text), key)
          \/ drawingFilterThrows(filteredFindings(findings, status, text), hidden, dsearch)
          \/ groupedFindings(filteredFindings(findings, status, text)).threw

curPipelineMustThrow ==
    pipelineMustThrow(report.findings, filterStatus, searchText, sortBy,
                      hiddenLayers, drawingSearch)

(* SpecSchema: one displayed Report that conforms to the schema; the        *)
(* controls work as long as the last render completed.                      *)
InitSchema == \E rep \in SchemaReports : AppShows(rep) /\ InitialComponentState(rep)

NextSchema ==
    /\ ~curPipelineMustThrow
    /\ UNCHANGED lastHandler
    /\ \/ \E opt \in StatusFilterOptions : SetFilterStatus(opt)
       \/ \E text \in SearchStrings : SetSearchText(text)
       \/ \E key \in SortOptions : SetSortBy(key)
       \/ \E text \in DrawingSearchStrings : SetDrawingSearch(text)

SpecSchema == InitSchema /\ [][NextSchema]_vars

(* C11: for every Report the schema allows and every status filter, search  *)
(* string, drawing search and sort key, computing processedFindings,        *)
(* groupedFindings and visibleDrawingFindings raises no error.              *)
C11_PipelineNeverThrows == ~curPipelineMustThrow

(* C12: with request A pending and request B started after it, once both    *)
(* have completed the Report on display is the result of B, the request     *)
(* started last, whichever of the two completed first.                      *)
C12_LatestRequestWins ==
    (/\ pending = <<>>
     /\ lastHandler[1] = "handleFileUpload"
     /\ analysisReport # <<>>)
      => analysisReport[1].fileName = lastHandler[2].name

(* C13: whenever a new result replaces the Report on display, the transient *)
(* UI state (status filter, search text, sort key, hidden layers, base      *)
(* layer, drawing search, export categories, active and hovered finding)    *)
(* is back at its initial value, under every interleaving of requests.      *)
C13_ResultResetsUiState ==
    [][(/\ Mounted
        /\ MountedIn(isAuthenticated', view', isAnalyzing', analysisReport')
        /\ analysisReport' # analysisReport)
         => /\ filterStatus' = "ALL"
            /\ searchText' = <<>>
            /\ sortBy' = "SEVERITY"
            /\ hiddenLayers' = {}
            /\ showBaseLayer' = TRUE
            /\ drawingSearch' = <<>>
            /\ activeFindingId' = NULL
            /\ hoveredFindingId' = NULL
            /\ exportCategories' \in {<<>>, allCategories(analysisReport'[1].findings)}]_vars

(* C14: whenever at least one analysis request is pending, isAnalyzing is   *)
(* true; the completion of one request does not clear the indicator while   *)
(* another request is still pending.                                        *)
C14_AnalyzingWhilePending == pending # <<>> => isAnalyzing

(* A box the type allows: [ymin, xmin, ymax, xmax] in thousandths with      *)
(* 0 <= ymin < ymax <= 1 and 0 <= xmin < xmax <= 1.                         *)
ValidBox(b) ==
    /\ b # NoBox
    /\ 0 <= b[1] /\ b[1] < b[3] /\ b[3] <= 1000
    /\ 0 <= b[2] /\ b[2] < b[4] /\ b[4] <= 1000

(* C15: the rectangle of a visible finding has left = xmin*100, top =       *)
(* ymin*100, width = (xmax-xmin)*100 and height = (ymax-ymin)*100 percent;  *)
(* for a valid box left >= 0, top >= 0, width > 0, height > 0, left+width   *)
(* <= 100 and top+height <= 100; the box [0.1, 0.2, 0.3, 0.6] gives left    *)
(* 20, top 10, width 40, height 20.  (Percentages are held times 1000.)     *)
C15_RectGeometry ==
    /\ Len(overlayRects(curVisible)) = Len(curVisible)
    /\ \A i \in 1..Len(curVisible) :
         LET b == curVisible[i].boundingBox
             r == overlayRects(curVisible)[i]
         IN /\ r.id = curVisible[i].id
            /\ r.x = 100 * b[2]
            /\ r.y = 100 * b[1]
            /\ r.x + r.width = 100 * b[4]
            /\ r.y + r.height = 100 * b[3]
            /\ ValidBox(b) =>
                 /\ r.x >= 0 /\ r.y >= 0 /\ r.width > 0 /\ r.height > 0
                 /\ r.x + r.width <= 100000
                 /\ r.y + r.height <= 100000
            /\ b = <<100, 200, 300, 600>> =>
                 r.x = 20000 /\ r.y = 10000 /\ r.width = 40000 /\ r.height = 20000

C15_Witness ==
    /\ Rendered
    /\ \E f, g \in Range(curVisible) :
          /\ f.boundingBox = <<100, 200, 300, 600>>
          /\ ValidBox(g.boundingBox) /\ g.boundingBox[4] = 1000 /\ g.boundingBox[2] = 0

(* C16: a step that sets or clears activeFindingId or hoveredFindingId      *)
(* changes neither the members nor the order of the visible overlay set,    *)
(* of processedFindings and of groupedFindings, and it changes only one of  *)
(* the two ids: a click leaves the hovered id alone, pointer enter and      *)
(* leave keep the active id.                                                *)
C16_PointerFrame ==
    [][(pointerVars' # pointerVars) =>
          /\ LET processed == processedFindings(analysisReport'[1].findings,
                                                filterStatus', searchText', sortBy')
             IN /\ processed = curProcessed
                /\ visibleDrawingFindings(processed, hiddenLayers', drawingSearch')
                     = curVisible
                /\ groupedFindings(processed) = curGrouped
          /\ activeFindingId' # activeFindingId => hoveredFindingId' = hoveredFindingId
          /\ hoveredFindingId' # hoveredFindingId => activeFindingId' = activeFindingId]_vars

C16_Witness ==
    /\ Rendered
    /\ activeFindingId # NULL
    /\ hoveredFindingId # NULL
    /\ activeFindingId # hoveredFindingId
    /\ \E f \in Range(curVisible) : f.id = activeFindingId

(* C17: at most one tooltip is shown at a time, also when the active and    *)
(* the hovered finding are two different members of the visible overlay     *)
(* set, and a tooltip is shown only for a member of the visible overlay     *)
(* set.                                                                     *)
C17_AtMostOneTooltip ==
    Rendered =>
      LET shown == tooltips(curVisible, activeFindingId, hoveredFindingId)
      IN /\ Len(shown) <= 1
         /\ \A t \in Range(shown) : \E f \in Range(curVisible) : f.id = t.id

(* C18: the annotation of a finding is anchored at left = xmin*100 percent  *)
(* and top = ymin*100 percent; it is placed below the anchor exactly when   *)
(* ymin*100 < 15 and above it otherwise, the boundary value 15 included.    *)
C18_TooltipPlacement ==
    Rendered =>
      \A t \in Range(tooltips(curVisible, activeFindingId, hoveredFindingId)) :
        \E f \in Range(curVisible) :
           /\ f.id = t.id
           /\ t.left = 100 * f.boundingBox[2]
           /\ t.top = 100 * f.boundingBox[1]
           /\ t.isNearTop <=> (f.boundingBox[1] < 150)

C18_Witness ==
    /\ Rendered
    /\ \E t \in Range(tooltips(curVisible, activeFindingId, hoveredFindingId)) :
          t.top = 15000 /\ ~t.isNearTop

----------------------------------------------------------------------------
(* SpecExport: the App with the export selection controls of the mounted    *)
(* ComplianceReport.  lastHandler records the last export operation of the  *)
(* user: the selection it produced and the Report it was made for.          *)
ExportOperation ==
    /\ \/ \E c \in CategoryNames \cup {sSystem} : ToggleExportCategory(c)
       \/ BulkExportCategories
    /\ lastHandler' = <<"export", [selection |-> exportCategories',
                                   report |-> analysisReport]>>

NextExport ==
    \/ \E target \in {"landing", "login", "signup"} : NavigatePublic(target) /\ UNCHANGED lastHandler
    \/ handleLogin /\ UNCHANGED lastHandler
    \/ handleLogout /\ UNCHANGED lastHandler
    \/ \E target \in {"dashboard", "upload", "report"} : SetView(target) /\ UNCHANGED lastHandler
    \/ NewAnalysis /\ UNCHANGED lastHandler
    \/ \E file \in Files : handleFileUpload(file) /\ UNCHANGED lastHandler
    \/ \E i \in 1..MaxPending, outcome \in ProviderOutcomes :
          AnalysisSettles(i, outcome) /\ UNCHANGED lastHandler
    \/ ExportOperation

SpecExport == InitApp /\ [][NextExport]_vars

(* C19: from any selection state of the export builder, the bulk operation  *)
(* on a full selection gives the empty selection and on a non-full          *)
(* selection gives exactly the full category list; select all followed by   *)
(* deselect all gives the empty selection; toggling a category from the     *)
(* empty selection gives the singleton of it; toggling a category twice     *)
(* restores the membership.                                                 *)
C19_ExportSelectionAlgebra ==
    Rendered =>
      LET all == curAllCategories
          bulk == bulkExportCategoriesList(exportCategories, all)
      IN /\ Range(exportCategories) = Range(all) => bulk = <<>>
         /\ Range(exportCategories) # Range(all) => bulk = all
         /\ bulkExportCategoriesList(all, all) = <<>>
         /\ \A c \in Range(all) :
              /\ toggleExportCategoryList(<<>>, c) = <<c>>
              /\ Range(toggleExportCategoryList(
                         toggleExportCategoryList(exportCategories, c), c))
                   = Range(exportCategories)

(* C20: once the categories of the Report are known and before any export   *)
(* operation of the user, the export selection is the full category list;   *)
(* a selection the user emptied stays empty until the user changes it (the  *)
(* default is not applied again for the same Report).                       *)
C20_ExportDefaultOnce ==
    Rendered =>
      /\ (lastHandler[1] = "none" /\ Len(curAllCategories) > 0)
            => exportCategories = curAllCategories
      /\ (/\ lastHandler[1] = "export"
          /\ lastHandler[2].selection = <<>>
          /\ lastHandler[2].report = analysisReport)
            => exportCategories = <<>>

----------------------------------------------------------------------------
(* The export dialog of the mounted ComplianceReport (lines 130-138 and     *)
(* 652-808).                                                                *)

(* "Export" button of the report header (line 238). *)
OpenExportModal ==
    /\ Rendered
    /\ isExportModalOpen' = TRUE
    /\ UNCHANGED <<appVars, sideVars, listVars, layerVars, pointerVars, exportCategories,
                   isDownloading, exportConfig, exportStatuses>>

(* Header close button (line 658); it is never disabled. *)
CloseExportModal ==
    /\ Rendered
    /\ isExportModalOpen
    /\ isExportModalOpen' = FALSE
    /\ UNCHANGED <<appVars, sideVars, listVars, layerVars, pointerVars, exportCategories,
                   isDownloading, exportConfig, exportStatuses>>

(* Footer Cancel button (lines 785-791), disabled while isDownloading. *)
CancelExport ==
    /\ Rendered
    /\ isExportModalOpen
    /\ ~isDownloading
    /\ isExportModalOpen' = FALSE
    /\ UNCHANGED <<appVars, sideVars, listVars, layerVars, pointerVars, exportCategories,
                   isDownloading, exportConfig, exportStatuses>>

Orientations == {"portrait", "landscape"}

SetOrientation(o) ==
    /\ Rendered
    /\ isExportModalOpen
    /\ exportConfig' = [exportConfig EXCEPT !.orientation = o]
    /\ UNCHANGED <<appVars, sideVars, listVars, layerVars, pointerVars, exportCategories,
                   isExportModalOpen, isDownloading, exportStatuses>>

IncludeKeys == {"includeSummary", "includeCharts", "includeBoundingBoxes"}

ToggleInclude(key) ==
    /\ Rendered
    /\ isExportModalOpen
    /\ exportConfig' = [exportConfig EXCEPT ![key] = ~exportConfig[key]]
    /\ UNCHANGED <<appVars, sideVars, listVars, layerVars, pointerVars, exportCategories,
                   isExportModalOpen, isDownloading, exportStatuses>>

toggleExportStatusList(prev, status) ==
    IF status \in Range(prev)
    THEN SelectSeq(prev, LAMBDA x : x # status)
    ELSE Append(prev, status)

ToggleExportStatus(status) ==
    /\ Rendered
    /\ isExportModalOpen
    /\ exportStatuses' = toggleExportStatusList(exportStatuses, status)
    /\ UNCHANGED <<appVars, sideVars, listVars, layerVars, pointerVars, exportCategories,
                   isExportModalOpen, isDownloading, exportConfig>>

(* The values the timeout callback of handleDownload closes over: those of  *)
(* the render in which handleDownload was called.                           *)
DownloadClosure ==
    [exportConfig |-> exportConfig,
     exportCategories |-> exportCategories,
     allCategories |-> curAllCategories,
     exportStatuses |-> exportStatuses]

(* The text of the alert of line 136. *)
alertMessage(closure) ==
    [kind |-> "generated successfully",
     orientation |-> closure.exportConfig.orientation,
     summary |-> closure.exportConfig.includeSummary,
     charts |-> closure.exportConfig.includeCharts,
     boundingBoxes |-> closure.exportConfig.includeBoundingBoxes,
     categories |-> Len(closure.exportCategories),
     ofCategories |-> Len(closure.allCategories),
     statuses |-> Len(closure.exportStatuses)]

handleDownloadWhileDownloading ==
    /\ Rendered
    /\ isExportModalOpen
    /\ isDownloading' = TRUE
    /\ timers' = Append(timers, DownloadClosure)
    /\ UNCHANGED <<appVars, lastAlert, chatAppVars, chatVars, error, listVars, layerVars,
                   pointerVars, exportCategories, isExportModalOpen, exportConfig,
                   exportStatuses>>

(* "Download PDF" (lines 792-799), disabled while isDownloading. *)
handleDownload ==
    /\ Rendered
    /\ isExportModalOpen
    /\ ~isDownloading
    /\ isDownloading' = TRUE
    /\ timers' = Append(timers, DownloadClosure)
    /\ UNCHANGED <<appVars, lastAlert, chatAppVars, chatVars, error, listVars, layerVars,
                   pointerVars, exportCategories, isExportModalOpen, exportConfig,
                   exportStatuses>>

TimerFiresReadsCurrentOptions ==
    /\ timers # <<>>
    /\ isDownloading' = FALSE
    /\ isExportModalOpen' = FALSE
    /\ lastAlert' = <<alertMessage(DownloadClosure)>>
    /\ timers' = Tail(timers)
    /\ UNCHANGED <<appVars, chatAppVars, chatVars, error, listVars, layerVars, pointerVars,
                   exportCategories, exportConfig, exportStatuses>>

(* The callback of setTimeout (lines 133-137) runs; all delays are 1500 ms, *)
(* so the callbacks run in the order they were set.                         *)
TimerFires ==
    /\ timers # <<>>
    /\ isDownloading' = FALSE
    /\ isExportModalOpen' = FALSE
    /\ lastAlert' = <<alertMessage(Head(timers))>>
    /\ timers' = Tail(timers)
    /\ UNCHANGED <<appVars, chatAppVars, chatVars, error, listVars, layerVars, pointerVars,
                   exportCategories, exportConfig, exportStatuses>>

(* SpecDownload: one displayed Report and its export dialog.  lastHandler   *)
(* records the last handleDownload and, once its timer has run, that it     *)
(* has, with the options as they were when handleDownload was called.       *)
DownloadReport == AnalysisReport(80, "ok", "plan.png", <<A1, A2, B1>>, "img")

InitDownload == AppShows(DownloadReport) /\ InitialComponentState(DownloadReport)

UsedIncludeKeys == {"includeSummary", "includeBoundingBoxes"}

NextDownload ==
    \/ OpenExportModal /\ UNCHANGED lastHandler
    \/ CloseExportModal /\ UNCHANGED lastHandler
    \/ CancelExport /\ UNCHANGED lastHandler
    \/ \E o \in Orientations : SetOrientation(o) /\ UNCHANGED lastHandler
    \/ \E key \in UsedIncludeKeys : ToggleInclude(key) /\ UNCHANGED lastHandler
    \/ ToggleExportStatus(PASS) /\ UNCHANGED lastHandler
    \/ isExportModalOpen /\ BulkExportCategories /\ UNCHANGED lastHandler
    \/ handleDownload /\ lastHandler' = <<"handleDownload", DownloadClosure>>
    \/ TimerFires /\ lastHandler' = <<"timerFired", lastHandler[2]>>

SpecDownload == InitDownload /\ [][NextDownload]_vars

(* The browser runs a timeout callback that is due. *)
FairSpecDownload ==
    SpecDownload /\ WF_vars(TimerFires /\ lastHandler' = <<"timerFired", lastHandler[2]>>)

(* C21: every handleDownload sets isDownloading and, the timer being fair,  *)
(* is followed by a state with isDownloading false, the dialog closed and   *)
(* a success alert; no alert reports a failure; the options in the alert    *)
(* are those of the moment handleDownload was called.                       *)
C21_DownloadCompletes ==
    /\ [](lastHandler[1] = "handleDownload" => isDownloading)
    /\ [](lastAlert # <<>> => lastAlert[1].kind = "generated successfully")
    /\ [](lastHandler[1] = "timerFired" =>
             /\ lastAlert # <<>>
             /\ lastAlert[1].orientation = lastHandler[2].exportConfig.orientation
             /\ lastAlert[1].summary = lastHandler[2].exportConfig.includeSummary
             /\ lastAlert[1].charts = lastHandler[2].exportConfig.includeCharts
             /\ lastAlert[1].boundingBoxes = lastHandler[2].exportConfig.includeBoundingBoxes
             /\ lastAlert[1].categories = Cardinality(Range(lastHandler[2].exportCategories))
             /\ lastAlert[1].statuses = Cardinality(Range(lastHandler[2].exportStatuses)))
    /\ (lastHandler[1] = "handleDownload")
          ~> (/\ lastHandler[1] = "timerFired"
              /\ ~isDownloading
              /\ ~isExportModalOpen
              /\ lastAlert # <<>>)

(* The options were changed while the export was being generated, and the   *)
(* timer has run.                                                           *)
C21_Witness ==
    /\ lastHandler[1] = "timerFired"
    /\ lastAlert # <<>>
    /\ ~isDownloading
    /\ lastHandler[2].exportConfig # exportConfig
    /\ lastHandler[2].exportCategories # exportCategories
    /\ lastHandler[2].exportStatuses # exportStatuses

(* C28: at most one export timer is pending at any time: handleDownload can *)
(* run only while isDownloading is false, also after the dialog was closed  *)
(* with the header button during generation and opened again; isDownloading *)
(* is true exactly while a timer is pending.                                *)
C28_OneTimer ==
    /\ [](Len(timers) <= 1)
    /\ [](isDownloading <=> timers # <<>>)
    /\ [][isDownloading => Len(timers') <= Len(timers)]_vars

C28_Witness ==
    /\ isDownloading
    /\ ~isExportModalOpen
    /\ Len(timers) = 1

----------------------------------------------------------------------------
(* ChatInterface (src/components/ChatInterface.tsx) and the App's chat      *)
(* state.  Message ids and timestamps (clock readings) are not modelled.    *)

sApologyNoText == <<"I"," ","a","p","o","l","o","g","i","z","e">>
sApologyError == <<"I"," ","e","n","c","o","u","n","t","e","r","e","d">>
modelMessage(text) == [role |-> "model", text |-> text]

ChatReplies == {<<"o","k">>}
ChatResolves(text) == [kind |-> "resolves", text |-> text]
ChatResolvesNoText == [kind |-> "noText", text |-> <<>>]
ChatRejects == [kind |-> "rejects", text |-> <<>>]
ChatOutcomes == {ChatResolves(t) : t \in ChatReplies} \cup {ChatResolvesNoText, ChatRejects}

ChatInputs == {<<" ">>, <<"h","i">>}

(* The text of onConsult (ComplianceReport.tsx:409), abridged. *)
consultText(f) == <<"R","e","g","a","r","d","i","n","g"," ">> \o f.description

(* handleSend (lines 40-52), up to its await. *)
handleSend(text) ==
    IF trim(text) = <<>>
    THEN UNCHANGED chatVars
    ELSE /\ Len(messages) < MaxMessages - 1
         /\ Len(chatPending) < MaxChatPending
         /\ messages' = Append(messages, userMessage(text))
         /\ input' = <<>>
         /\ isLoading' = TRUE
         /\ chatPending' = Append(chatPending, ChatRequest(messages, text))

(* Sidebar item and floating button (App.tsx:126, 276). *)
OpenChat ==
    /\ isAuthenticated
    /\ ~isChatOpen
    /\ isChatOpen' = TRUE
    /\ UNCHANGED <<appVars, listVars, layerVars, pointerVars, exportCategories,
                   downloadVars, timerVars, consultContext, chatVars, error>>

(* onClose (App.tsx:289); the effect of lines 34-38 runs with no message. *)
CloseChat ==
    /\ isAuthenticated
    /\ isChatOpen
    /\ isChatOpen' = FALSE
    /\ consultContext' = Undefined
    /\ UNCHANGED <<appVars, listVars, layerVars, pointerVars, exportCategories,
                   downloadVars, timerVars, chatVars, error>>

(* The consult button of the expanded finding card (ComplianceReport.tsx    *)
(* 400-409): handleConsult (App.tsx:44-47) and then the effect of           *)
(* ChatInterface.tsx 34-38, which runs when initialMessage has changed.     *)
handleConsult(context) ==
    /\ Rendered
    /\ \E f \in Range(curProcessed) : f.id = activeFindingId /\ context = consultText(f)
    /\ consultContext' = context
    /\ isChatOpen' = TRUE
    /\ IF context # consultContext /\ context # <<>>
       THEN handleSend(context)
       ELSE UNCHANGED chatVars
    /\ UNCHANGED <<appVars, listVars, layerVars, pointerVars, exportCategories,
                   downloadVars, timerVars, error>>

(* onChange of the input (line 158); the input is disabled while isLoading. *)
SetInput(text) ==
    /\ isAuthenticated
    /\ isChatOpen
    /\ ~isLoading
    /\ input' = text
    /\ UNCHANGED <<appVars, listVars, layerVars, pointerVars, exportCategories,
                   downloadVars, timerVars, chatAppVars, messages, isLoading,
                   chatPending, error>>

(* onSubmit of the form (line 152): handleSend(input).  The input is        *)
(* disabled while isLoading; handleSend itself refuses a blank text.        *)
SubmitChat ==
    /\ isAuthenticated
    /\ isChatOpen
    /\ ~isLoading
    /\ handleSend(input)
    /\ UNCHANGED <<appVars, listVars, layerVars, pointerVars, exportCategories,
                   downloadVars, timerVars, chatAppVars, error>>

chatReplyMessageDropsFailure(outcome) ==
    IF outcome.kind = "resolves"
    THEN <<modelMessage(outcome.text)>>
    ELSE <<>>

(* The message handleSend appends once sendChatMessage has settled (lines   *)
(* 61-77).                                                                  *)
chatReplyMessage(outcome) ==
    IF outcome.kind = "rejects"
    THEN <<modelMessage(sApologyError)>>
    ELSE IF outcome.text # <<>>
    THEN <<modelMessage(outcome.text)>>
    ELSE <<modelMessage(sApologyNoText)>>

(* sendChatMessage call i settles; handleSend resumes (lines 61-80). *)
ChatSettles(i, outcome) ==
    /\ i \in 1..Len(chatPending)
    /\ messages' = messages \o chatReplyMessage(outcome)
    /\ isLoading' = FALSE
    /\ chatPending' = RemoveAt(chatPending, i)
    /\ UNCHANGED <<appVars, listVars, layerVars, pointerVars, exportCategories,
                   downloadVars, timerVars, chatAppVars, input, error>>

(* SpecChat: a signed-in user with a Report on display and the chat.        *)
(* lastHandler records the handleSend or the settled call of the last step  *)
(* with the chat state before it.                                           *)
ChatBefore == [messages |-> messages, input |-> input, isLoading |-> isLoading,
               chatPending |-> chatPending]

InitChat == InitDownload

ConsultFindings == {A1, A2}

NextChat ==
    \/ OpenChat /\ lastHandler' = <<"other", <<>>>>
    \/ CloseChat /\ lastHandler' = <<"other", <<>>>>
    \/ \E f \in ConsultFindings : HandleFindingClick(f.id) /\ lastHandler' = <<"other", <<>>>>
    \/ \E f \in ConsultFindings :
          /\ handleConsult(consultText(f))
          /\ lastHandler' = <<"handleConsult", [text |-> consultText(f), before |-> ChatBefore]>>
    \/ \E text \in ChatInputs : SetInput(text) /\ lastHandler' = <<"other", <<>>>>
    \/ SubmitChat /\ lastHandler' = <<"handleSend", [text |-> input, before |-> ChatBefore]>>
    \/ \E i \in 1..MaxChatPending, outcome \in ChatOutcomes :
          /\ ChatSettles(i, outcome)
          /\ lastHandler' = <<"chatSettled", [request |-> chatPending[i],
                                              outcome |-> outcome,
                                              before |-> ChatBefore]>>

SpecChat == InitChat /\ [][NextChat]_vars

ChatApologies == {sApologyNoText, sApologyError}

(* C22: when the provider call of a sent message fails, exactly one         *)
(* model-role apology is appended, after the user message of that call,     *)
(* nothing else is added or removed, and isLoading is false again so that   *)
(* a further message can be sent; a message that is blank after trimming    *)
(* sends nothing and changes no state.                                      *)
C22_ChatFailureHandled ==
    /\ (lastHandler[1] = "chatSettled" /\ lastHandler[2].outcome.kind # "resolves") =>
          LET before == lastHandler[2].before.messages
          IN /\ Len(messages) = Len(before) + 1
             /\ SubSeq(messages, 1, Len(before)) = before
             /\ messages[Len(messages)].role = "model"
             /\ messages[Len(messages)].text \in ChatApologies
             /\ \E k \in 1..Len(before) :
                   /\ before[k].role = "user"
                   /\ before[k].text = lastHandler[2].request.message
             /\ ~isLoading
             /\ Len(chatPending) = Len(lastHandler[2].before.chatPending) - 1
    /\ (lastHandler[1] = "handleSend" /\ trim(lastHandler[2].text) = <<>>) =>
          /\ ChatBefore = lastHandler[2].before
          /\ chatPending = lastHandler[2].before.chatPending

C22_Witness ==
    /\ lastHandler[1] = "chatSettled"
    /\ lastHandler[2].outcome.kind = "rejects"
    /\ ~isLoading
    /\ Len(messages) = 3

(* The number of messages of a role *)
CountRole(msgs, role) == Len(SelectSeq(msgs, LAMBDA m : m.role = role))

(* C30: every accepted user message gets exactly one model-role message     *)
(* (the reply or the apology) once its request has settled; isLoading is    *)
(* true in every state in which a chat request is pending, also when a      *)
(* consult message is sent while an earlier request is pending; the history *)
(* passed to the provider is the message list before the send, without the  *)
(* new user message.                                                        *)
C30_ChatLoadingWhilePending ==
    /\ CountRole(messages, "user") =
          CountRole(messages, "model") - 1 + Len(chatPending)
    /\ chatPending # <<>> => isLoading
    /\ lastHandler[1] \in {"handleSend", "handleConsult"} =>
          \A i \in 1..Len(chatPending) :
             i > Len(lastHandler[2].before.chatPending) =>
                chatPending[i].history = lastHandler[2].before.messages

----------------------------------------------------------------------------
(* FileUpload.handleFile (src/components/FileUpload.tsx:13-32) *)

validTypes == {"image/jpeg", "image/png", "image/webp"}

sDemoVersion == "For this demo version, please upload an Image (PNG/JPG) of your drawing plan."

ChosenFiles ==
    {[name |-> "a.png", type |-> "image/png", base64 |-> "imgA"],
     [name |-> "b.webp", type |-> "image/webp", base64 |-> "imgB"],
     [name |-> "c.pdf", type |-> "application/pdf", base64 |-> "docC"],
     [name |-> "d.gif", type |-> "image/gif", base64 |-> "imgD"]}

(* How readAsDataURL ends: onloadend runs after a load and after an error;  *)
(* after an error reader.result is null.                                    *)
ReadOutcomes == {"load", "error"}

(* handleFile with the onloadend callback of its FileReader; the read ends  *)
(* before the next event of the user.  After a failed read                  *)
(* base64String.split throws a TypeError in the callback and onUpload is    *)
(* not called.                                                              *)
handleFile(file, read) ==
    /\ isAuthenticated
    /\ view = "upload"
    /\ IF file.type \notin validTypes
       THEN /\ error' = sDemoVersion
            /\ UNCHANGED <<appVars, listVars, layerVars, pointerVars, exportCategories,
                           downloadVars, timerVars, chatAppVars, chatVars>>
       ELSE IF read = "error"
       THEN /\ error' = NULL
            /\ UNCHANGED <<appVars, listVars, layerVars, pointerVars, exportCategories,
                           downloadVars, timerVars, chatAppVars, chatVars>>
       ELSE handleFileUpload([name |-> file.name, base64 |-> file.base64])

(* SpecUpload: the App with the file control of the upload view.            *)
(* lastHandler records the handleFile of the last step and the App state    *)
(* before it.                                                               *)
UploadBefore == [view |-> view, isAnalyzing |-> isAnalyzing,
                 analysisReport |-> analysisReport, pending |-> pending]

NextUpload ==
    \/ \E target \in {"landing", "login", "signup"} :
          NavigatePublic(target) /\ lastHandler' = <<"other", <<>>>>
    \/ handleLogin /\ lastHandler' = <<"other", <<>>>>
    \/ handleLogout /\ lastHandler' = <<"other", <<>>>>
    \/ \E target \in {"dashboard", "upload", "report"} :
          SetView(target) /\ lastHandler' = <<"other", <<>>>>
    \/ NewAnalysis /\ lastHandler' = <<"other", <<>>>>
    \/ \E file \in ChosenFiles, read \in ReadOutcomes :
          /\ handleFile(file, read)
          /\ lastHandler' = <<"handleFile", [file |-> file, before |-> UploadBefore]>>
    \/ \E i \in 1..MaxPending, outcome \in ProviderOutcomes :
          AnalysisSettles(i, outcome) /\ lastHandler' = <<"other", <<>>>>

SpecUpload == InitApp /\ [][NextUpload]_vars

(* C23: for a file whose type is not image/jpeg, image/png or image/webp    *)
(* handleFile sets the validation message and does not call onUpload: no    *)
(* request starts and view, isAnalyzing and analysisReport do not change;   *)
(* for a file of an accepted type the message is cleared and onUpload is    *)
(* called exactly once with the base64 payload.                             *)
C23_UploadValidation ==
    lastHandler[1] = "handleFile" =>
      LET file == lastHandler[2].file
          before == lastHandler[2].before
      IN IF file.type \in {"image/jpeg", "image/png", "image/webp"}
         THEN /\ error = NULL
              /\ Len(pending) = Len(before.pending) + 1
              /\ SubSeq(pending, 1, Len(before.pending)) = before.pending
              /\ pending[Len(pending)].base64 = file.base64
         ELSE /\ error # NULL
              /\ pending = before.pending
              /\ view = before.view
              /\ isAnalyzing = before.isAnalyzing
              /\ analysisReport = before.analysisReport

(* C24: no operation of the findings pipeline or of the UI state (filter,   *)
(* search, sort, grouping, layer toggles, overlay mapping, export           *)
(* selection) changes report.findings: the Report keeps the same findings,  *)
(* in the same order, with the same field values.                           *)
C24_FindingsReadOnly ==
    [][/\ Len(analysisReport'[1].findings) = Len(analysisReport[1].findings)
       /\ \A i \in 1..Len(analysisReport[1].findings) :
             analysisReport'[1].findings[i] = analysisReport[1].findings[i]]_vars

(* The pipeline has produced an order and a visible set that differ from    *)
(* the Report's finding sequence.                                           *)
C24_Witness ==
    /\ Rendered
    /\ Len(curProcessed) = Len(report.findings)
    /\ curProcessed # report.findings
    /\ curVisible # curProcessed
    /\ hiddenLayers # {}

(* C25: the search term that is matched is the search string after          *)
(* trimming: the filter result for a string s is the filter result for      *)
(* trim(s); a string of white space only filters nothing and a term typed   *)
(* with leading or trailing spaces selects the findings of the bare term.   *)
C25_SearchTermTrimmed ==
    Mounted =>
      /\ processedFindings(report.findings, filterStatus, searchText, sortBy)
           = processedFindings(report.findings, filterStatus, trim(searchText), sortBy)
      /\ trim(searchText) = <<>> =>
           curFiltered = filterByStatus(report.findings, filterStatus)

(* C26: the category navigation list is exactly the set of categories that  *)
(* have a finding in processedFindings (General for an empty category),     *)
(* without duplicates and in ascending order; it is empty exactly when      *)
(* processedFindings is empty.  For the findings A1, A2, B1 with filter     *)
(* ALL, empty search and sort SEVERITY the order is A1, A2, B1, the groups  *)
(* are Egress: B1 and Fire: A1, A2, and the list is Egress, Fire.           *)
C26_CategoryNavigation ==
    Mounted =>
      /\ ~curGrouped.threw
      /\ LET nav == categories(curGrouped)
         IN /\ Range(nav) = {categoryOrGeneral(f) : f \in Range(curProcessed)}
            /\ \A i, j \in 1..Len(nav) : i < j => codeUnitLess(nav[i], nav[j])
            /\ (nav = <<>>) <=> (curProcessed = <<>>)
      /\ (/\ report.findings = <<A1, A2, B1>>
          /\ filterStatus = "ALL" /\ searchText = <<>> /\ sortBy = "SEVERITY")
         => /\ curProcessed = <<A1, A2, B1>>
            /\ DOMAIN curGrouped.groups = {sEgress, sFire}
            /\ curGrouped.groups[sEgress] = <<B1>>
            /\ curGrouped.groups[sFire] = <<A1, A2>>
            /\ categories(curGrouped) = <<sEgress, sFire>>

(* C27: after handleLogout analysisReport is null and stays null while the  *)
(* user is not authenticated: an analysis request pending at logout that    *)
(* completes afterwards sets no Report, so the next login shows no Report   *)
(* produced before the logout.                                              *)
C27_NoReportWhileLoggedOut == ~isAuthenticated => analysisReport = <<>>

(* C29: in every state reached through the export operations (the default   *)
(* initialisation, toggleExportCategory, the bulk button) exportCategories  *)
(* has no duplicate and holds only categories of the Report on display, so  *)
(* exportCategories.length = allCategories.length exactly when every        *)
(* category of the Report is selected.                                      *)
C29_ExportSelectionWellFormed ==
    Rendered =>
      /\ \A i, j \in 1..Len(exportCategories) :
            i # j => exportCategories[i] # exportCategories[j]
      /\ Range(exportCategories) \subseteq Range(curAllCategories)
      /\ (Len(exportCategories) = Len(curAllCategories))
            <=> (Range(exportCategories) = Range(curAllCategories))

====
